---- MODULE Spec2Model ----
(***************************************************************************)
(* Account model (User), its document store and the authentication and     *)
(* registration operations of the StudyConnect server.                     *)
(*                                                                         *)
(* JavaScript strings are sequences of one-character strings, so that      *)
(* toLowerCase, String.includes, template literals and the e-mail regular  *)
(* expression are computed on the characters.  Timestamps are Date.now()   *)
(* milliseconds; they are positive, and null is written 0 (which is falsy  *)
(* in JavaScript as well).                                                 *)
(***************************************************************************)
EXTENDS Integers, Sequences, FiniteSets, TLC

(***************************************************************************)
(* Bounds of the model.                                                    *)
(***************************************************************************)
\* createUser inserts at most this many documents
MaxUsers == 3
\* Date.now() does not advance beyond this value
MaxClock == 900002
\* deleteUser is not applied when the rewritten e-mail would be longer
MaxStrLen == 24
\* session ids the session store hands out
MaxSessions == 2
\* POST /api/posts does not insert into a posts collection of this size
MaxPosts == 7
\* handlers that wait for the store at the same time
MaxInFlight == 2

(***************************************************************************)
(* Strings.                                                                *)
(***************************************************************************)
LowerAlpha == <<"a","b","c","d","e","f","g","h","i","j","k","l","m","n","o","p","q","r","s","t","u","v","w","x","y","z">>
UpperAlpha == <<"A","B","C","D","E","F","G","H","I","J","K","L","M","N","O","P","Q","R","S","T","U","V","W","X","Y","Z">>

Letters == 1..26

\* the characters with a lower-case form, and those with an upper-case form
lowerCaseOf == [c \in { UpperAlpha[i] : i \in Letters } |->
                   LowerAlpha[CHOOSE i \in Letters : UpperAlpha[i] = c]]
upperCaseOf == [c \in { LowerAlpha[i] : i \in Letters } |->
                   UpperAlpha[CHOOSE i \in Letters : LowerAlpha[i] = c]]

toLowerCaseChar(c) == IF c \in DOMAIN lowerCaseOf THEN lowerCaseOf[c] ELSE c

toLowerCase(s) == [i \in 1..Len(s) |-> toLowerCaseChar(s[i])]

toUpperCaseChar(c) == IF c \in DOMAIN upperCaseOf THEN upperCaseOf[c] ELSE c

toUpperCase(s) == [i \in 1..Len(s) |-> toUpperCaseChar(s[i])]

\* String.prototype.includes
includes(s, sub) ==
    \E i \in 0..(Len(s) - Len(sub)) :
        \A j \in 1..Len(sub) : s[i + j] = sub[j]

DigitChars == <<"0","1","2","3","4","5","6","7","8","9">>

RECURSIVE numberToString(_)
\* the decimal digits of a non-negative integer, as `${n}` produces them
numberToString(n) ==
    IF n < 10 THEN <<DigitChars[n + 1]>>
    ELSE numberToString(n \div 10) \o <<DigitChars[(n % 10) + 1]>>

\* Math.ceil(a / b) for a >= 0 and b > 0
ceilDiv(a, b) == (a + b - 1) \div b

\* the class [^\s@] of the e-mail regular expression
notSpaceOrAt(c) == c \notin {" ", "@"}

\* /^[^\s@]+@[^\s@]+\.[^\s@]+$/.test(s)
emailRegexTest(s) ==
    \E a \in 2..Len(s), d \in 4..Len(s) :
        /\ a + 1 < d
        /\ d < Len(s)
        /\ s[a] = "@"
        /\ s[d] = "."
        /\ \A i \in 1..Len(s) : i \notin {a, d} => notSpaceOrAt(s[i])

(***************************************************************************)
(* Program constants.                                                      *)
(***************************************************************************)
\* 15 * 60 * 1000
LockMs == 900000
\* user.loginAttempts + 1 >= 5
MaxLoginAttempts == 5
\* password.length < 6
MinPasswordLength == 6
\* 1000 * 60, the divisor of the lock message
MinuteMs == 60000
\* error.code === 11000
DuplicateKeyCode == 11000
\* MongoDB's ConflictingUpdateOperators
ConflictCode == 40

null == 0
\* Date.now() when the server starts
Epoch == 1

(***************************************************************************)
(* Messages.                                                               *)
(***************************************************************************)
NoError == <<>>
AllFieldsRequired == <<"A","l","l"," ","f","i","e","l","d","s"," ","a","r","e"," ","r","e","q","u","i","r","e","d">>
InvalidEmailFormat == <<"I","n","v","a","l","i","d"," ","e","m","a","i","l"," ","f","o","r","m","a","t">>
PasswordTooShort == <<"P","a","s","s","w","o","r","d"," ","m","u","s","t"," ","b","e"," ","a","t"," ","l","e","a","s","t"," ","6"," ","c","h","a","r","a","c","t","e","r","s">>
CollectionNotAvailable == <<"D","a","t","a","b","a","s","e"," ","c","o","l","l","e","c","t","i","o","n"," ","n","o","t"," ","a","v","a","i","l","a","b","l","e">>
InvalidCredentials == <<"I","n","v","a","l","i","d"," ","c","r","e","d","e","n","t","i","a","l","s">>
UserNotFound == <<"U","s","e","r"," ","n","o","t"," ","f","o","u","n","d">>
\* the TypeError of a call on User.collection while it is null
NullFindOne == <<"C","a","n","n","o","t"," ","r","e","a","d"," ","p","r","o","p","e","r","t","i","e","s"," ","o","f"," ","n","u","l","l"," ","(","r","e","a","d","i","n","g"," ","'","f","i","n","d","O","n","e","'",")">>
NullUpdateOne == <<"C","a","n","n","o","t"," ","r","e","a","d"," ","p","r","o","p","e","r","t","i","e","s"," ","o","f"," ","n","u","l","l"," ","(","r","e","a","d","i","n","g"," ","'","u","p","d","a","t","e","O","n","e","'",")">>
\* the error of the guarded handle's find, findOne and insertOne
NotConnected == <<"D","a","t","a","b","a","s","e"," ","n","o","t"," ","c","o","n","n","e","c","t","e","d"," ","f","o","r"," ","c","o","l","l","e","c","t","i","o","n",":"," ","u","s","e","r","s">>
EmailExists == <<"E","m","a","i","l">> \o <<" ","a","l","r","e","a","d","y"," ","e","x","i","s","t","s">>
UsernameExists == <<"U","s","e","r","n","a","m","e">> \o <<" ","a","l","r","e","a","d","y"," ","e","x","i","s","t","s">>

AccountLocked(lockTime) ==
    <<"A","c","c","o","u","n","t"," ","i","s"," ","l","o","c","k","e","d","."," ","T","r","y"," ","a","g","a","i","n"," ","i","n"," ">> \o numberToString(lockTime) \o <<" ","m","i","n","u","t","e","s">>

\* the message of the server's duplicate-key error for a unique index
duplicateKeyMessage(field, value) ==
    <<"E","1","1","0","0","0"," ","d","u","p","l","i","c","a","t","e"," ","k","e","y"," ","e","r","r","o","r"," ","c","o","l","l","e","c","t","i","o","n",":"," ","s","t","u","d","y","c","o","n","n","e","c","t",".","u","s","e","r","s"," ","i","n","d","e","x",":"," ">>
    \o field \o <<"_","1"," ","d","u","p"," ","k","e","y",":"," ","{"," ">> \o field \o <<":"," ","\"">> \o value \o <<"\""," ","}">>

\* the message of the server's error for one path named by two update operators
conflictMessage(path) ==
    <<"U","p","d","a","t","i","n","g"," ","t","h","e"," ","p","a","t","h"," ","'">> \o path \o <<"'"," ","w","o","u","l","d"," ","c","r","e","a","t","e"," ","a"," ","c","o","n","f","l","i","c","t"," ","a","t"," ","'">>
    \o path \o <<"'">>

\* flash messages of the routes
LoginFieldsRequired == <<"E","m","a","i","l","/","U","s","e","r","n","a","m","e"," ","a","n","d"," ","p","a","s","s","w","o","r","d"," ","a","r","e"," ","r","e","q","u","i","r","e","d">>
LoggedIn == <<"S","u","c","c","e","s","s","f","u","l","l","y"," ","l","o","g","g","e","d"," ","i","n","!">>
AuthenticationFailed == <<"A","u","t","h","e","n","t","i","c","a","t","i","o","n"," ","f","a","i","l","e","d">>
PasswordsDoNotMatch == <<"P","a","s","s","w","o","r","d","s"," ","d","o"," ","n","o","t"," ","m","a","t","c","h">>
AccountCreated == <<"A","c","c","o","u","n","t"," ","c","r","e","a","t","e","d"," ","s","u","c","c","e","s","s","f","u","l","l","y","!"," ","W","e","l","c","o","m","e"," ","t","o"," ","S","t","u","d","y","C","o","n","n","e","c","t","!">>
AccountCreatedPleaseLogIn == <<"A","c","c","o","u","n","t"," ","c","r","e","a","t","e","d","!"," ","P","l","e","a","s","e"," ","l","o","g"," ","i","n",".">>
RegistrationFailed == <<"R","e","g","i","s","t","r","a","t","i","o","n"," ","f","a","i","l","e","d">>
ProfileUpdated == <<"P","r","o","f","i","l","e"," ","u","p","d","a","t","e","d"," ","s","u","c","c","e","s","s","f","u","l","l","y">>
ErrorLoadingProfile == <<"E","r","r","o","r"," ","l","o","a","d","i","n","g"," ","p","r","o","f","i","l","e">>

\* paths
HomePath == <<"/">>
LoginPath == <<"/","a","u","t","h","/","l","o","g","i","n">>
RegisterPath == <<"/","a","u","t","h","/","r","e","g","i","s","t","e","r">>
ProfilePath == <<"/","a","u","t","h","/","p","r","o","f","i","l","e">>
CrudPath == <<"/","c","r","u","d">>

(***************************************************************************)
(* Inputs.                                                                 *)
(***************************************************************************)
\* registration forms: two accounts, forms that collide with them on the e-mail
\* (up to letter case) or on the username, and forms that fail validation
ValidPassword == <<"s","e","c","r","e","t","1">>
WrongPassword == <<"s","e","c","r","e","t","2">>
Form(name, email, username, password) ==
    [name |-> name, email |-> email, username |-> username,
     password |-> password, role |-> "student"]
FormA == Form(<<"A">>, <<"a","@","x",".","c">>, <<"b","o","b">>, ValidPassword)
FormB == Form(<<"A">>, <<"b","@","x",".","c">>, <<"e","m","a","i","l","s">>, ValidPassword)
FormSameEmail == Form(<<"A">>, <<"A","@","x",".","c">>, <<"c","a","r","o","l">>, ValidPassword)
FormSameUsername == Form(<<"A">>, <<"c","@","x",".","c">>, <<"B","o","b">>, ValidPassword)
FormSameUsernameB == Form(<<"A">>, <<"c","@","x",".","c">>, <<"E","m","a","i","l","s">>, ValidPassword)
FormNoName == Form(<<>>, <<"a","@","x",".","c">>, <<"b","o","b">>, ValidPassword)
FormBadEmail == Form(<<"A">>, <<"a","@","x">>, <<"b","o","b">>, ValidPassword)
FormShortPassword == Form(<<"A">>, <<"a","@","x",".","c">>, <<"b","o","b">>, <<"a","b","c">>)
\* the body of POST /auth/register
RegisterBody(form, confirmPassword, role) ==
    [name |-> form.name, email |-> form.email, username |-> form.username,
     password |-> form.password, confirmPassword |-> confirmPassword,
     role |-> role]

BodyA == RegisterBody(FormA, ValidPassword, "student")
\* a body that asks for the role admin
BodyB == RegisterBody(FormB, ValidPassword, "admin")
\* a username that is written like the e-mail of FormB
FormEmailAsUsername == Form(<<"A">>, <<"c","@","x",".","c">>, FormB.email, WrongPassword)
BodyEmailAsUsername ==
    RegisterBody(FormEmailAsUsername, WrongPassword, "student")
BodyNoName == RegisterBody(FormNoName, ValidPassword, "student")
BodyBadEmail == RegisterBody(FormBadEmail, ValidPassword, "student")
BodyShortPassword ==
    RegisterBody(FormShortPassword, FormShortPassword.password, "student")
BodyMismatch == RegisterBody(FormA, WrongPassword, "student")

\* the body of POST /auth/login
LoginBody(emailOrUsername, password) ==
    [emailOrUsername |-> emailOrUsername, password |-> password]

AdminEmail == <<"a","d","m","i","n","@","s","t","u","d","y","c","o","n","n","e","c","t",".","e","d","u">>
AdminUsername == <<"a","d","m","i","n">>
AdminPassword == <<"A","d","m","i","n","1","2","3","!">>
AdminName == <<"S","y","s","t","e","m"," ","A","d","m","i","n","i","s","t","r","a","t","o","r">>
EmailField == <<"e","m","a","i","l">>
UsernameField == <<"u","s","e","r","n","a","m","e">>
LoginAttemptsField == <<"l","o","g","i","n","A","t","t","e","m","p","t","s">>

VARIABLES
    users,       \* the documents of the users collection, in insertion order
    indexes,     \* the unique indexes of the users collection, in creation order
    collection,  \* User.collection: "null", or the handle getCollection gave
    now,         \* Date.now()
    last,        \* the last call: its arguments and what it returned or threw
    db,          \* mongoDBManager.db is set: the store is connected
    isDatabaseReady, \* the server's flag: initializeDatabase has finished
    sessions,    \* the session store: the data of each live session id
    cookie,      \* the session id the browser presents, 0 when it has none
    response,    \* the last response of the server
    posts,       \* the documents of the store's posts collection
    inFlight,    \* the handlers that wait for the store, and what they read
    listening    \* app.listen was called: the server accepts requests

vars == <<users, indexes, collection, now, last,
          db, isDatabaseReady, sessions, cookie, response,
          posts, inFlight, listening>>

\* what the operations of the User model leave alone
server == <<db, isDatabaseReady, sessions, cookie, response,
            posts, inFlight, listening>>

\* what the routes of routes/auth.js leave alone
api == <<posts, inFlight, listening>>

(***************************************************************************)
(* Credential hashing (bcryptjs).  The digest is a one-way function of the *)
(* plaintext; the salt is left out.                                        *)
(***************************************************************************)
hashPassword(password) == <<"$","2","a","$","1","0","$">> \o password

comparePassword(password, hashedPassword) ==
    hashedPassword = hashPassword(password)

(***************************************************************************)
(* The users collection of a connected store.  A document keeps the fields *)
(* the operations below read; createdAt, updatedAt, profile and            *)
(* preferences are written and never read, and are left out.               *)
(***************************************************************************)
NoDoc == [_id |-> 0]

Docs(us) == { us[i] : i \in 1..Len(us) }

\* the first unique index, in creation order, that doc would violate
violatedIndexes(us, idx, doc) ==
    { k \in 1..Len(idx) :
        \E u \in Docs(us) : u._id # doc._id /\ u[idx[k]] = doc[idx[k]] }

\* uniqueViolation of a collection whose username index is never consulted
uniqueViolationEmailOnly(us, idx, doc) ==
    IF \E k \in violatedIndexes(us, idx, doc) : idx[k] = "email"
    THEN "email" ELSE "none"

uniqueViolation(us, idx, doc) ==
    LET v == violatedIndexes(us, idx, doc)
    IN  IF v = {} THEN "none"
        ELSE idx[CHOOSE k \in v : \A m \in v : k <= m]

\* MongoDB rejects an update that names one path under two operators
conflictingPaths(update) == (DOMAIN update.inc) \cap (DOMAIN update.set)

\* the document after $inc and $set; fields the model does not keep are dropped
applyUpdate(doc, update) ==
    [f \in DOMAIN doc |->
        IF f \in DOMAIN update.set THEN update.set[f]
        ELSE IF f \in DOMAIN update.inc THEN doc[f] + update.inc[f]
        ELSE doc[f]]

replaceDoc(us, doc) == [us EXCEPT ![doc._id] = doc]

\* createIndex({field: 1}, {unique: true}) succeeds unless two documents agree
canCreateIndex(us, field) ==
    \A u, w \in Docs(us) : u._id # w._id => u[field] # w[field]

(***************************************************************************)
(* Results of calls.                                                       *)
(***************************************************************************)
\* a call that has not returned yet: its arguments, the time and the size of
\* the collection when it was made
Call(op, arg) ==
    [op |-> op, arg |-> arg, at |-> now, count |-> Len(users),
     handle |-> collection, connected |-> db,
     id |-> 0, pre |-> NoDoc, compared |-> FALSE,
     ok |-> FALSE, error |-> NoError, code |-> 0, value |-> FALSE]

\* the document the call found, as it was, and whether its password was compared
On(call, user, compared) ==
    [call EXCEPT !.id = user._id, !.pre = user, !.compared = compared]

Returned(call, value) == [call EXCEPT !.ok = TRUE, !.value = value]

Thrown(call, message, code) == [call EXCEPT !.error = message, !.code = code]

(***************************************************************************)
(* The session store (express-session over its MemoryStore) and responses. *)
(***************************************************************************)
NoUser == [id |-> 0]

NoFormData == [name |-> <<>>, email |-> <<>>, username |-> <<>>]

\* a session without data; a key that is absent is written as the empty value
NewSession ==
    [user |-> NoUser, error |-> <<>>, success |-> <<>>,
     formData |-> NoFormData, returnTo |-> <<>>]

\* the store holds nothing under a session id that is not live
NoSession == [live |-> FALSE]

\* a request without a body
NoBody == [method |-> "GET"]

\* a response that is not res.json(...)
NoJson == [success |-> FALSE, error |-> <<>>, message |-> <<>>, data |-> NoDoc]

NoResponse ==
    [route |-> "none", status |-> 0, location |-> <<>>,
     rendered |-> NewSession, session |-> NewSession, pending |-> FALSE,
     setCookie |-> FALSE, sid |-> 0, body |-> NoBody, called |-> FALSE,
     before |-> NewSession, accounts |-> <<>>, html |-> TRUE, json |-> NoJson]

\* a handler that does not wait for the store
NoRequest == [op |-> "none"]

(***************************************************************************)
(* The posts collection.  Of a post the model keeps _id (its place in the  *)
(* collection), postId, title, is_published and updated_at.                *)
(***************************************************************************)
samplePost(postId, title, t) ==
    [_id |-> postId + 1, postId |-> postId, title |-> title,
     is_published |-> TRUE, updated_at |-> t]

samplePosts(t) ==
    << samplePost(0, <<"W","e","l","c","o","m","e"," ","t","o"," ","S","t","u","d","y","C","o","n","n","e","c","t","!">>, t),
       samplePost(1, <<"J","a","v","a","S","c","r","i","p","t"," ","A","s","y","n","c","/","A","w","a","i","t"," ","G","u","i","d","e">>, t),
       samplePost(2, <<"D","a","t","a","b","a","s","e"," ","D","e","s","i","g","n"," ","P","r","i","n","c","i","p","l","e","s">>, t),
       samplePost(3, <<"R","e","a","c","t"," ","H","o","o","k","s"," ","T","u","t","o","r","i","a","l">>, t),
       samplePost(4, <<"S","t","u","d","y"," ","G","r","o","u","p"," ","M","e","e","t","i","n","g"," ","-"," ","F","r","i","d","a","y">>, t) >>

\* seedSampleData: the sample posts are inserted into an empty collection
seedSampleData(stored, t) ==
    IF Len(stored) = 0 THEN samplePosts(t) ELSE stored

\* the state after the modules are loaded, with the outcome of
\* mongoDBManager.connect
Started(connected, stored) ==
    /\ users = <<>>
    /\ indexes = <<>>
    /\ collection = "null"
    /\ now = Epoch
    /\ db = connected
    /\ isDatabaseReady = FALSE
    /\ sessions = [sid \in 1..MaxSessions |-> NoSession]
    /\ cookie = 0
    /\ response = NoResponse
    /\ posts = IF connected THEN seedSampleData(stored, Epoch) ELSE stored
    /\ inFlight = [p \in 1..MaxInFlight |-> NoRequest]
    /\ listening = FALSE
    /\ last = [Returned(Call("constructor", <<>>), TRUE)
                  EXCEPT !.connected = connected]

\* the same over a store without posts
Constructed(connected) == Started(connected, <<>>)

\* the store was reached: connect has set db
Init == Constructed(TRUE)

(***************************************************************************)
(* MongoDBManager.  The repository holds two copies of getCollection.      *)
(* Without a connection the one gives a handle whose operations are all    *)
(* mocks ("mock"); the other gives a handle whose find, findOne and        *)
(* insertOne look at db again on every call ("guarded").  The handle is    *)
(* the one of the copy the server loads.                                   *)
(***************************************************************************)
getCollection(connected) ==
    IF connected THEN {"real"} ELSE {"mock", "guarded"}

\* a handle that forwards to the store whatever it is
delegatesAlways(handle, connected) == TRUE

\* find, findOne and insertOne reach the collection of the store
delegates(handle, connected) ==
    handle = "real" \/ (handle = "guarded" /\ connected)

\* find, findOne and insertOne throw
rejects(handle, connected) == handle = "guarded" /\ ~connected

mockId(t) == <<"m","o","c","k","-","i","d","-">> \o numberToString(t)

\* what the operations of the mock handle return
mockResult(op, t) ==
    CASE op = "find" -> <<>>
      [] op = "findOne" -> null
      [] op = "insertOne" -> [insertedId |-> mockId(t), acknowledged |-> TRUE]
      [] op = "insertMany" ->
            [insertedIds |-> << mockId(t) \o <<"-","0">> >>, acknowledged |-> TRUE]
      [] op = "updateOne" -> [modifiedCount |-> 0, acknowledged |-> TRUE]
      [] op = "deleteOne" -> [deletedCount |-> 0, acknowledged |-> TRUE]
      [] op = "countDocuments" -> 0
      [] op = "aggregate" -> <<>>

\* mongoDBManager.connect: db is set when the store is reached, null otherwise
connect(reached) ==
    /\ db' = reached
    /\ posts' = IF reached THEN seedSampleData(posts, now) ELSE posts
    /\ last' = [Returned(Call("connect", [reached |-> reached]), TRUE)
                   EXCEPT !.connected = reached]
    /\ UNCHANGED <<users, indexes, collection, now,
                   isDatabaseReady, sessions, cookie, response,
                   inFlight, listening>>

(***************************************************************************)
(* User.initialize                                                         *)
(***************************************************************************)
createIndexes(us, idx) ==
    LET withEmail ==
            IF \E k \in 1..Len(idx) : idx[k] = "email" THEN idx
            ELSE Append(idx, "email")
        withBoth ==
            IF \E k \in 1..Len(withEmail) : withEmail[k] = "username"
            THEN withEmail
            ELSE Append(withEmail, "username")
    IN  IF ~canCreateIndex(us, "email") THEN idx
        ELSE IF ~canCreateIndex(us, "username") THEN withEmail
        ELSE withBoth

\* a handle without createIndex (both substitutes) gets no index
initialize ==
    /\ \E handle \in getCollection(db) :
          /\ collection' = handle
          /\ indexes' = IF handle = "real"
                        THEN createIndexes(users, indexes) ELSE indexes
    /\ last' = Returned(Call("initialize", <<>>), TRUE)
    /\ UNCHANGED <<users, now>>

(***************************************************************************)
(* User.createUser                                                         *)
(***************************************************************************)
\* newUser without the lower-casing of the e-mail and the username
newUserKeepsCase(id, name, email, username, password, role) ==
    [_id |-> id,
     name |-> name,
     email |-> email,
     username |-> username,
     password |-> hashPassword(password),
     role |-> role,
     isActive |-> TRUE,
     lastLogin |-> null,
     loginAttempts |-> 0,
     lockUntil |-> null]

newUser(id, name, email, username, password, role) ==
    [_id |-> id,
     name |-> name,
     email |-> toLowerCase(email),
     username |-> toLowerCase(username),
     password |-> hashPassword(password),
     role |-> role,
     isActive |-> TRUE,
     lastLogin |-> null,
     loginAttempts |-> 0,
     lockUntil |-> null]

\* the catch block: a duplicate-key error is renamed after the field it names
duplicateField(message) ==
    IF includes(message, EmailField) THEN EmailExists ELSE UsernameExists

fieldName(field) == IF field = "email" THEN EmailField ELSE UsernameField

createUser(userData) ==
    LET call == Call("createUser", userData)
        name == userData.name
        email == userData.email
        username == userData.username
        password == userData.password
        user == newUser(Len(users) + 1, name, email, username, password,
                        userData.role)
        dup == uniqueViolation(users, indexes, user)
    IN
    /\ IF name = <<>> \/ email = <<>> \/ password = <<>> \/ username = <<>>
       THEN /\ last' = Thrown(call, AllFieldsRequired, 0)
            /\ UNCHANGED users
       ELSE IF ~emailRegexTest(email)
       THEN /\ last' = Thrown(call, InvalidEmailFormat, 0)
            /\ UNCHANGED users
       ELSE IF Len(password) < MinPasswordLength
       THEN /\ last' = Thrown(call, PasswordTooShort, 0)
            /\ UNCHANGED users
       ELSE IF collection = "null"
       THEN /\ last' = Thrown(call, CollectionNotAvailable, 0)
            /\ UNCHANGED users
       ELSE IF rejects(collection, db)
       THEN /\ last' = Thrown(call, NotConnected, 0)
            /\ UNCHANGED users
       ELSE IF ~delegates(collection, db)
       THEN /\ last' = Returned(call,
                               [id |-> mockId(now), name |-> user.name,
                                email |-> user.email,
                                username |-> user.username,
                                role |-> user.role])
            /\ UNCHANGED users
       ELSE IF dup # "none"
       THEN /\ last' = Thrown(call,
                   duplicateField(duplicateKeyMessage(fieldName(dup),
                                                      user[dup])), 0)
            /\ UNCHANGED users
       ELSE /\ Len(users) < MaxUsers
            /\ users' = Append(users, user)
            /\ last' = Returned([call EXCEPT !.id = user._id],
                                [id |-> user._id, name |-> user.name,
                                 email |-> user.email,
                                 username |-> user.username,
                                 role |-> user.role])
    /\ UNCHANGED <<indexes, collection, now>>

(***************************************************************************)
(* User.authenticate                                                       *)
(***************************************************************************)
\* authQuery without the isActive condition
authQueryAnyAccount(us, emailOrUsername) ==
    LET id == toLowerCase(emailOrUsername)
    IN  { u \in Docs(us) : u.email = id \/ u.username = id }

\* the documents the query {$or: [{email}, {username}], isActive: true} selects
authQuery(us, emailOrUsername) ==
    LET id == toLowerCase(emailOrUsername)
    IN  { u \in Docs(us) :
            /\ u.email = id \/ u.username = id
            /\ u.isActive = TRUE }

\* isLocked with the comparison reversed
isLockedReversed(user) == user.lockUntil # null /\ user.lockUntil < now

\* isLocked without the comparison with the current time
isLockedForever(user) == user.lockUntil # null

isLocked(user) == user.lockUntil # null /\ user.lockUntil > now

\* the update document of a failed attempt
failedAttemptUpdate(user) ==
    IF user.loginAttempts + 1 >= MaxLoginAttempts
    THEN [inc |-> [loginAttempts |-> 1],
          set |-> [updatedAt |-> now, lockUntil |-> now + LockMs,
                   loginAttempts |-> 0]]
    ELSE [inc |-> [loginAttempts |-> 1],
          set |-> [updatedAt |-> now]]

\* successUpdate without the reset of the lock
successUpdateKeepsLock ==
    [inc |-> <<>>,
     set |-> [loginAttempts |-> 0, lastLogin |-> now, updatedAt |-> now]]

\* the update document of a successful login
successUpdate ==
    [inc |-> <<>>,
     set |-> [loginAttempts |-> 0, lockUntil |-> null, lastLogin |-> now,
              updatedAt |-> now]]

\* sessionUser with the stored hash among its fields
sessionUserWithPassword(user) ==
    [id |-> user._id, name |-> user.name, email |-> user.email,
     username |-> user.username, role |-> user.role,
     password |-> user.password]

sessionUser(user) ==
    [id |-> user._id, name |-> user.name, email |-> user.email,
     username |-> user.username, role |-> user.role]

authenticateFound(call, user) ==
    IF isLocked(user)
    THEN /\ last' = Thrown(On(call, user, FALSE),
                AccountLocked(ceilDiv(user.lockUntil - now, MinuteMs)), 0)
         /\ UNCHANGED users
    ELSE IF collection # "real"
    THEN \* updateOne of a substitute handle: nothing is written
         /\ last' = IF comparePassword(call.arg.password, user.password)
                    THEN Returned(On(call, user, TRUE), sessionUser(user))
                    ELSE Thrown(On(call, user, TRUE), InvalidCredentials, 0)
         /\ UNCHANGED users
    ELSE IF ~comparePassword(call.arg.password, user.password)
    THEN LET update == failedAttemptUpdate(user)
         IN  IF conflictingPaths(update) # {}
             THEN /\ last' = Thrown(On(call, user, TRUE),
                                    conflictMessage(LoginAttemptsField),
                                    ConflictCode)
                  /\ UNCHANGED users
             ELSE /\ users' = replaceDoc(users,
                                         applyUpdate(users[user._id], update))
                  /\ last' = Thrown(On(call, user, TRUE),
                                    InvalidCredentials, 0)
    ELSE /\ users' = replaceDoc(users,
                                applyUpdate(users[user._id], successUpdate))
         /\ last' = Returned(On(call, user, TRUE), sessionUser(user))

authenticate(emailOrUsername, password) ==
    LET call == Call("authenticate", [emailOrUsername |-> emailOrUsername,
                                      password |-> password])
        found == authQuery(users, emailOrUsername)
    IN
    /\ IF collection = "null"
       THEN /\ last' = Thrown(call, NullFindOne, 0)
            /\ UNCHANGED users
       ELSE IF rejects(collection, db)
       THEN /\ last' = Thrown(call, NotConnected, 0)
            /\ UNCHANGED users
       ELSE IF ~delegates(collection, db) \/ found = {}
       THEN /\ last' = Thrown(call, InvalidCredentials, 0)
            /\ UNCHANGED users
       ELSE \E user \in found : authenticateFound(call, user)
    /\ UNCHANGED <<indexes, collection, now>>

\* the handlers that wait for the store between a read and their write
waiting == { p \in 1..MaxInFlight : inFlight[p].op \in {"findOne", "find"} }

\* authenticate up to the return of findOne: the call keeps the document as
\* it read it; a call that ends there is the whole of authenticate
authenticateFindOne(p, emailOrUsername, password) ==
    LET found == IF collection = "real" THEN authQuery(users, emailOrUsername)
                 ELSE {}
    IN
    /\ p \notin waiting
    /\ IF found = {}
       THEN /\ authenticate(emailOrUsername, password)
            /\ UNCHANGED inFlight
       ELSE /\ \E user \in found :
                  inFlight' = [inFlight EXCEPT ![p] =
                      [op |-> "findOne",
                       arg |-> [emailOrUsername |-> emailOrUsername,
                                password |-> password],
                       user |-> user, during |-> waiting]]
            /\ UNCHANGED <<users, indexes, collection, now, last>>

\* authenticate from the return of findOne: the lock test, the comparison
\* and updateOne, whose $inc and $set the store applies to the document as
\* it is stored then
authenticateUpdateOne(p) ==
    /\ inFlight[p].op = "findOne"
    /\ authenticateFound(Call("authenticate", inFlight[p].arg),
                         inFlight[p].user)
    /\ inFlight' = [inFlight EXCEPT ![p].op = "updateOne"]
    /\ UNCHANGED <<indexes, collection, now>>

(***************************************************************************)
(* User.updateUser                                                         *)
(***************************************************************************)
updateUser(userId, updateData) ==
    LET call == Call("updateUser", [userId |-> userId,
                                    updateData |-> updateData])
        update == [inc |-> <<>>,
                   set |-> [f \in (DOMAIN updateData) \cup {"updatedAt"} |->
                               IF f = "updatedAt" THEN now ELSE updateData[f]]]
    IN
    \* updatedAt is set to a new Date: a document that is matched is modified
    /\ IF collection = "null"
       THEN /\ last' = Thrown(call, NullUpdateOne, 0)
            /\ UNCHANGED users
       ELSE IF collection # "real"
       THEN /\ last' = Returned(call, FALSE)
            /\ UNCHANGED users
       ELSE IF userId \in 1..Len(users)
       THEN LET user == users[userId]
                after == applyUpdate(user, update)
            IN  /\ users' = replaceDoc(users, after)
                /\ last' = Returned(On(call, user, FALSE), TRUE)
       ELSE /\ last' = Returned(call, FALSE)
            /\ UNCHANGED users
    /\ UNCHANGED <<indexes, collection, now>>

(***************************************************************************)
(* User.deleteUser                                                         *)
(***************************************************************************)
deletedValue(value) == <<"d","e","l","e","t","e","d","_">> \o numberToString(now) \o <<"_">> \o value

\* deleteUpdate without the rewriting of the e-mail and the username
deleteUpdateKeepsIdentity(user) ==
    [inc |-> <<>>,
     set |-> [isActive |-> FALSE, updatedAt |-> now]]

\* the soft delete: the document stays, inactive, under a rewritten identity
deleteUpdate(user) ==
    [inc |-> <<>>,
     set |-> [isActive |-> FALSE, updatedAt |-> now,
              email |-> deletedValue(user.email),
              username |-> deletedValue(user.username)]]

deleteUser(userId) ==
    LET call == Call("deleteUser", [userId |-> userId])
    IN
    /\ IF collection = "null"
       THEN /\ last' = Thrown(call, NullFindOne, 0)
            /\ UNCHANGED users
       ELSE IF rejects(collection, db)
       THEN /\ last' = Thrown(call, NotConnected, 0)
            /\ UNCHANGED users
       ELSE IF delegates(collection, db) /\ userId \in 1..Len(users)
       THEN LET user == users[userId]
                after == applyUpdate(user, deleteUpdate(user))
                dup == uniqueViolation(users, indexes, after)
            IN  /\ Len(after.email) <= MaxStrLen
                /\ IF collection # "real"
                   THEN /\ last' = Returned(On(call, user, FALSE), FALSE)
                        /\ UNCHANGED users
                   ELSE IF dup # "none"
                   THEN /\ last' = Thrown(On(call, user, FALSE),
                                 duplicateKeyMessage(fieldName(dup), after[dup]),
                                 DuplicateKeyCode)
                        /\ UNCHANGED users
                   ELSE /\ users' = replaceDoc(users, after)
                        /\ last' = Returned(On(call, user, FALSE), after # user)
       ELSE /\ last' = Thrown(call, UserNotFound, 0)
            /\ UNCHANGED users
    /\ UNCHANGED <<indexes, collection, now>>

(***************************************************************************)
(* User.seedAdminUser                                                      *)
(***************************************************************************)
\* the handle and the indexes after "if (!this.collection) initialize()"
ensured(handle) ==
    IF collection # "null" THEN [collection |-> collection, indexes |-> indexes]
    ELSE [collection |-> handle,
          indexes |-> IF handle = "real" THEN createIndexes(users, indexes)
                      ELSE indexes]

\* an error of findOne or insertOne is caught and logged
seedAdminUser ==
    \E handle \in getCollection(db) :
        LET use == ensured(handle)
            adminExists == \E u \in Docs(users) : u.role = "admin"
            adminData == newUser(Len(users) + 1, AdminName, AdminEmail,
                                 AdminUsername, AdminPassword, "admin")
        IN
        /\ collection' = use.collection
        /\ indexes' = use.indexes
        /\ IF /\ delegates(use.collection, db)
              /\ ~adminExists
              /\ uniqueViolation(users, use.indexes, adminData) = "none"
           THEN /\ Len(users) < MaxUsers
                /\ users' = Append(users, adminData)
           ELSE UNCHANGED users
        /\ last' = Returned(Call("seedAdminUser", <<>>), TRUE)
        /\ UNCHANGED now

(***************************************************************************)
(* User.getUserById                                                        *)
(***************************************************************************)
\* the document without its password
withoutPassword(user) == [f \in (DOMAIN user) \ {"password"} |-> user[f]]

getUserById(userId) ==
    LET call == Call("getUserById", [userId |-> userId])
    IN
    /\ last' =
          IF collection = "null" THEN Thrown(call, NullFindOne, 0)
          ELSE IF rejects(collection, db) THEN Thrown(call, NotConnected, 0)
          ELSE IF delegates(collection, db) /\ userId \in 1..Len(users)
          THEN Returned(On(call, users[userId], FALSE),
                        withoutPassword(users[userId]))
          ELSE Returned(call, null)
    /\ UNCHANGED <<users, indexes, collection, now>>

(***************************************************************************)
(* The operations of a substitute handle, called on the one User.collection *)
(* holds: find(query).toArray(), findOne(query), insertOne(document) and   *)
(* the others, with the empty query and the document of a registration.    *)
(***************************************************************************)
HandleOps ==
    {"find", "findOne", "insertOne", "insertMany", "updateOne", "deleteOne",
     "countDocuments", "aggregate"}

\* the operations of the guarded handle that look at db
GuardedOps == {"find", "findOne", "insertOne"}

handleCall(op, userData) ==
    LET call == Call(op, userData)
        document == newUser(Len(users) + 1, userData.name, userData.email,
                            userData.username, userData.password,
                            userData.role)
        dup == uniqueViolation(users, indexes, document)
    IN
    /\ collection \in {"mock", "guarded"}
    /\ IF collection = "mock" \/ op \notin GuardedOps
       THEN /\ last' = Returned(call, mockResult(op, now))
            /\ UNCHANGED users
       ELSE IF ~db
       THEN /\ last' = Thrown(call, NotConnected, 0)
            /\ UNCHANGED users
       ELSE IF op = "find"
       THEN /\ last' = Returned(call, users)
            /\ UNCHANGED users
       ELSE IF op = "findOne"
       THEN /\ last' = IF users = <<>> THEN Returned(call, null)
                       ELSE Returned(On(call, users[1], FALSE), users[1])
            /\ UNCHANGED users
       ELSE IF dup # "none"
       THEN /\ last' = Thrown(call,
                              duplicateKeyMessage(fieldName(dup),
                                                  document[dup]),
                              DuplicateKeyCode)
            /\ UNCHANGED users
       ELSE /\ Len(users) < MaxUsers
            /\ users' = Append(users, document)
            /\ last' = Returned([call EXCEPT !.id = document._id],
                                [insertedId |-> document._id,
                                 acknowledged |-> TRUE])
    /\ UNCHANGED <<indexes, collection, now>>

(***************************************************************************)
(* The server: initializeDatabase runs connect, User.initialize and        *)
(* User.seedAdminUser one after the other and then sets isDatabaseReady;   *)
(* the routes are mounted when it has finished.                            *)
(***************************************************************************)
initializeDatabase ==
    /\ ~isDatabaseReady
    /\ \/ /\ last.op = "constructor"
          /\ \E reached \in BOOLEAN : connect(reached)
       \/ /\ last.op = "connect"
          /\ initialize
          /\ UNCHANGED server
       \/ /\ last.op = "initialize"
          /\ seedAdminUser
          /\ UNCHANGED server
       \/ /\ last.op = "seedAdminUser"
          /\ isDatabaseReady' = TRUE
          /\ UNCHANGED <<users, indexes, collection, now, last,
                         db, sessions, cookie, response, api>>

(***************************************************************************)
(* express-session.  A request carries the browser's cookie; req.session   *)
(* is the stored session of that id, or a new session under a new id when  *)
(* the store holds none.  When the response ends, the session is written   *)
(* to the store if it differs from what was loaded (resave and             *)
(* saveUninitialized are false) and the cookie is set; what a handler does *)
(* to req.session after the response has ended is not stored.              *)
(***************************************************************************)
live == cookie # 0 /\ sessions[cookie] # NoSession

reqSession == IF live THEN sessions[cookie] ELSE NewSession

sessionID ==
    IF live THEN cookie
    ELSE CHOOSE sid \in 1..MaxSessions :
            /\ sid # cookie /\ sessions[sid] = NoSession
            /\ \A other \in 1..(sid - 1) :
                  other = cookie \/ sessions[other] # NoSession

\* a response: what it rendered of the session, and req.session as the
\* handler left it; with it are kept the session id of the request,
\* req.session as it was loaded and the accounts as the request found them
Response(route, status, location, rendered, session) ==
    [route |-> route, status |-> status, location |-> location,
     rendered |-> rendered, session |-> session, pending |-> FALSE,
     setCookie |-> FALSE, sid |-> 0, body |-> NoBody, called |-> FALSE,
     before |-> NewSession, accounts |-> <<>>, html |-> TRUE, json |-> NoJson]

\* the response to a request with a body; called: the handler got as far as
\* its call of the User model, whose result is then the last call
To(body, called, resp) == [resp EXCEPT !.body = body, !.called = called]

Redirect(route, location, session) ==
    Response(route, 302, location, NewSession, session)

\* res.end: saved is req.session at that moment
end(resp, saved) ==
    LET modified == saved # reqSession
    IN  /\ sessions' = IF modified THEN [sessions EXCEPT ![sessionID] = saved]
                       ELSE sessions
        /\ cookie' = IF modified THEN sessionID ELSE cookie
        /\ response' = [resp EXCEPT !.setCookie = modified, !.sid = sessionID,
                                    !.before = reqSession, !.accounts = users]

\* the server answers one request of the browser at a time
idle == isDatabaseReady /\ ~response.pending

(***************************************************************************)
(* middleware/auth.js and the routes it protects.                          *)
(***************************************************************************)
\* requireAuth in front of a page (GET /crud)
requireAuth(originalUrl) ==
    LET session == reqSession
        withReturnTo == [session EXCEPT !.returnTo = originalUrl]
    IN
    /\ idle
    /\ IF session.user = NoUser
       THEN end(Redirect("requireAuth", LoginPath, withReturnTo), withReturnTo)
       ELSE end(Response("requireAuth", 200, <<>>, NewSession, session),
                session)
    /\ UNCHANGED <<users, indexes, collection, now, last, db, isDatabaseReady,
                   api>>

(***************************************************************************)
(* routes/auth.js.  User.collection is set by the time the routes are      *)
(* mounted, so ensureUserModelInitialized finds it initialized.            *)
(***************************************************************************)
\* GET /auth/login: the flash keys are deleted after res.send
getLogin ==
    LET session == reqSession
        shown == [NewSession EXCEPT !.error = session.error,
                                    !.success = session.success]
        after == [session EXCEPT !.error = <<>>, !.success = <<>>]
    IN
    /\ idle
    /\ IF session.user # NoUser
       THEN end(Redirect("GET /auth/login", HomePath, session), session)
       ELSE end(Response("GET /auth/login", 200, <<>>, shown, after), session)
    /\ UNCHANGED <<users, indexes, collection, now, last, db, isDatabaseReady,
                   api>>

\* loggedIn without the deletion of returnTo
loggedInKeepsReturnTo(session, result) ==
    IF result.ok
    THEN [session EXCEPT !.user = result.value, !.success = LoggedIn]
    ELSE [session EXCEPT !.error = IF result.error = <<>>
                                   THEN AuthenticationFailed
                                   ELSE result.error]

\* req.session after User.authenticate returned or threw in POST /auth/login
loggedIn(session, result) ==
    IF result.ok
    THEN [session EXCEPT !.user = result.value, !.success = LoggedIn,
                         !.returnTo = <<>>]
    ELSE [session EXCEPT !.error = IF result.error = <<>>
                                   THEN AuthenticationFailed
                                   ELSE result.error]

postLogin(body) ==
    LET session == reqSession
        missing == [session EXCEPT !.error = LoginFieldsRequired]
        returnTo == IF session.returnTo = <<>> THEN HomePath
                    ELSE session.returnTo
    IN
    /\ idle
    /\ collection # "null"
    /\ IF body.emailOrUsername = <<>> \/ body.password = <<>>
       THEN /\ end(To(body, FALSE,
                       Redirect("POST /auth/login", LoginPath, missing)),
                   missing)
            /\ UNCHANGED <<users, indexes, collection, now, last>>
       ELSE /\ authenticate(body.emailOrUsername, body.password)
            /\ end(To(body, TRUE,
                       Redirect("POST /auth/login",
                                IF last'.ok THEN returnTo ELSE LoginPath,
                                loggedIn(session, last'))),
                   loggedIn(session, last'))
    /\ UNCHANGED <<db, isDatabaseReady, api>>

\* GET /auth/register: the flash keys are deleted after res.send
getRegister ==
    LET session == reqSession
        shown == [NewSession EXCEPT !.error = session.error,
                                    !.formData = session.formData]
        after == [session EXCEPT !.error = <<>>, !.formData = NoFormData]
    IN
    /\ idle
    /\ IF session.user # NoUser
       THEN end(Redirect("GET /auth/register", HomePath, session), session)
       ELSE end(Response("GET /auth/register", 200, <<>>, shown, after),
                session)
    /\ UNCHANGED <<users, indexes, collection, now, last, db, isDatabaseReady,
                   api>>

\* registrationError without the comparison of the two passwords
registrationErrorUnconfirmed(body) ==
    IF \/ body.name = <<>> \/ body.email = <<>> \/ body.username = <<>>
       \/ body.password = <<>> \/ body.confirmPassword = <<>>
    THEN AllFieldsRequired
    ELSE IF Len(body.password) < MinPasswordLength
    THEN PasswordTooShort
    ELSE NoError

\* the validation of POST /auth/register: the flash error it sets, if any
registrationError(body) ==
    IF \/ body.name = <<>> \/ body.email = <<>> \/ body.username = <<>>
       \/ body.password = <<>> \/ body.confirmPassword = <<>>
    THEN AllFieldsRequired
    ELSE IF body.password # body.confirmPassword
    THEN PasswordsDoNotMatch
    ELSE IF Len(body.password) < MinPasswordLength
    THEN PasswordTooShort
    ELSE NoError

\* registeredRole that takes the role from the request body
registeredRoleOfBody(body) == body.role

\* the role POST /auth/register gives the account
registeredRole(body) == "student"

\* POST /auth/register up to the return of User.createUser: validation, and
\* the account with the role 'student' whatever the body holds
postRegister(body) ==
    LET session == [reqSession EXCEPT
                        !.formData = [name |-> body.name, email |-> body.email,
                                      username |-> body.username]]
        failed(message) == [session EXCEPT !.error = message]
        invalid == registrationError(body)
    IN
    /\ idle
    /\ collection # "null"
    /\ IF invalid # NoError
       THEN /\ end(To(body, FALSE,
                       Redirect("POST /auth/register", RegisterPath,
                                failed(invalid))),
                   failed(invalid))
            /\ UNCHANGED <<users, indexes, collection, now, last>>
       ELSE /\ createUser([name |-> body.name, email |-> body.email,
                           username |-> body.username,
                           password |-> body.password,
                           role |-> registeredRole(body)])
            /\ IF last'.ok
               THEN /\ response' =
                        [To(body, TRUE,
                            Response("POST /auth/register", 0, <<>>,
                                     NewSession, session))
                           EXCEPT !.pending = TRUE, !.sid = sessionID,
                                  !.before = reqSession, !.accounts = users]
                    /\ UNCHANGED <<sessions, cookie>>
               ELSE end(To(body, TRUE,
                           Redirect("POST /auth/register", RegisterPath,
                                    failed(IF last'.error = <<>>
                                           THEN RegistrationFailed
                                           ELSE last'.error))),
                        failed(IF last'.error = <<>> THEN RegistrationFailed
                               ELSE last'.error))
    /\ UNCHANGED <<db, isDatabaseReady, api>>

\* req.session after the auto-login of POST /auth/register; authenticate
\* returns success: true or throws, and a throw reaches the catch block
autoLoggedIn(session, result) ==
    IF result.ok
    THEN [session EXCEPT !.user = result.value, !.success = AccountCreated,
                         !.formData = NoFormData]
    ELSE [session EXCEPT !.error = IF result.error = <<>>
                                   THEN RegistrationFailed
                                   ELSE result.error]

\* POST /auth/register after User.createUser returned: the auto-login
postRegisterLogin ==
    LET session == response.session
    IN
    /\ isDatabaseReady
    /\ response.pending
    /\ authenticate(last.arg.email, last.arg.password)
    /\ end(To(response.body, TRUE,
               Redirect("POST /auth/register",
                        IF last'.ok THEN HomePath ELSE RegisterPath,
                        autoLoggedIn(session, last'))),
           autoLoggedIn(session, last'))
    /\ UNCHANGED <<db, isDatabaseReady, api>>

\* GET /auth/logout: session.destroy removes the session from the store;
\* the response carries no cookie
getLogout ==
    /\ idle
    /\ sessions' = IF live THEN [sessions EXCEPT ![cookie] = NoSession]
                   ELSE sessions
    /\ response' = [Redirect("GET /auth/logout", HomePath, NewSession)
                       EXCEPT !.sid = sessionID, !.before = reqSession,
                              !.accounts = users]
    /\ UNCHANGED <<users, indexes, collection, now, last, db,
                   isDatabaseReady, cookie, api>>

\* GET /auth/profile: the flash keys are deleted after res.send
getProfile ==
    LET session == reqSession
        withReturnTo == [session EXCEPT !.returnTo = ProfilePath]
        shown == [NewSession EXCEPT !.error = session.error,
                                    !.success = session.success]
        after == [session EXCEPT !.error = <<>>, !.success = <<>>]
        notFound == [session EXCEPT !.error = UserNotFound]
        failed == [session EXCEPT !.error = ErrorLoadingProfile]
    IN
    /\ idle
    /\ collection # "null"
    /\ IF session.user = NoUser
       THEN /\ end(Redirect("GET /auth/profile", LoginPath, withReturnTo),
                   withReturnTo)
            /\ UNCHANGED <<users, indexes, collection, now, last>>
       ELSE /\ getUserById(session.user.id)
            /\ IF ~last'.ok
               THEN end(Redirect("GET /auth/profile", HomePath, failed),
                        failed)
               ELSE IF last'.id = 0
               THEN end(Redirect("GET /auth/profile", HomePath, notFound),
                        notFound)
               ELSE end(Response("GET /auth/profile", 200, <<>>, shown, after),
                        session)
    /\ UNCHANGED <<db, isDatabaseReady, api>>

\* POST /auth/profile/update
postProfileUpdate(name) ==
    LET session == reqSession
        updated == [session EXCEPT !.user.name = name,
                                   !.success = ProfileUpdated]
    IN
    /\ idle
    /\ IF session.user = NoUser
       THEN /\ end(Response("POST /auth/profile/update", 401, <<>>,
                            NewSession, session), session)
            /\ UNCHANGED <<users, indexes, collection, now, last>>
       ELSE /\ updateUser(session.user.id, [name |-> name])
            /\ IF last'.ok /\ last'.value
               THEN end(Response("POST /auth/profile/update", 200, <<>>,
                                 NewSession, updated), updated)
               ELSE end(Response("POST /auth/profile/update",
                                 IF last'.ok THEN 400 ELSE 500, <<>>,
                                 NewSession, session), session)
    /\ UNCHANGED <<db, isDatabaseReady, api>>

(***************************************************************************)
(* The posts API of the server.  The handle postsCollection is the store's *)
(* collection when the store was reached at start-up and a substitute      *)
(* handle of the same getCollection as User.collection otherwise.  The ids *)
(* of the requests are shorter than an ObjectId, so that ObjectId.isValid  *)
(* is false for them.                                                      *)
(***************************************************************************)
\* isNaN(parseInt(id, 10))
NaN == -1

RECURSIVE digitsValue(_, _)
digitsValue(s, value) ==
    IF s = <<>> \/ ~includes(DigitChars, <<Head(s)>>) THEN value
    ELSE digitsValue(Tail(s),
                     10 * value
                     + (CHOOSE d \in 0..9 : DigitChars[d + 1] = Head(s)))

\* parseInt(s, 10) of a string without sign and leading space: the value of
\* its leading digits
parseInt(s) ==
    IF s = <<>> \/ ~includes(DigitChars, <<Head(s)>>) THEN NaN
    ELSE digitsValue(s, 0)

\* res.status(status).json(...): the session is left as it was loaded
json(route, status, id, body) ==
    end([Response(route, status, <<>>, NewSession, reqSession)
            EXCEPT !.html = FALSE, !.json = body, !.body = [id |-> id]],
        reqSession)

failure(error) == [NoJson EXCEPT !.error = error]

success(message, data) ==
    [success |-> TRUE, error |-> <<>>, message |-> message, data |-> data]

InternalServerError == <<"I","n","t","e","r","n","a","l"," ","s","e","r","v","e","r"," ","e","r","r","o","r">>

postNotFound(id) == <<"P","o","s","t"," ","w","i","t","h"," ","I","D"," ">> \o id \o <<" ","n","o","t"," ","f","o","u","n","d">>

\* a filter that lets every post through
publishedOrNot(post) == TRUE

\* the filter is_published: true of the reading routes
published(post) == post.is_published = TRUE

\* collection.findOne(query): the first document of the collection that
\* has the postId, among the published ones or among all
findOne(ps, postId, publishedOnly) ==
    LET matches(post) ==
            post.postId = postId /\ (publishedOnly => published(post))
        found == SelectSeq(ps, matches)
    IN  IF found = <<>> THEN NoDoc ELSE found[1]

\* the routes leave the accounts and the start-up alone
postsOnly ==
    UNCHANGED <<users, indexes, collection, now, last, db, isDatabaseReady,
                listening>>

\* GET /api/posts without query parameters: the published posts; the order
\* of the array is not kept
getPosts ==
    /\ idle
    /\ IF ~db
       THEN json("GET /api/posts", 503, <<>>,
                 [failure(<<"D","a","t","a","b","a","s","e"," ","n","o","t"," ","c","o","n","n","e","c","t","e","d">>)
                     EXCEPT !.message = <<"P","l","e","a","s","e"," ","t","r","y"," ","a","g","a","i","n"," ","l","a","t","e","r">>])
       ELSE json("GET /api/posts", 200, <<>>,
                 success(<<>>, SelectSeq(posts, published)))
    /\ postsOnly
    /\ UNCHANGED <<posts, inFlight>>

\* GET /api/posts/:id
getPost(id) ==
    LET route == "GET /api/posts/:id"
        post == findOne(posts, parseInt(id), TRUE)
    IN
    /\ idle
    /\ IF parseInt(id) = NaN
       THEN json(route, 400, id, failure(<<"I","n","v","a","l","i","d"," ","p","o","s","t"," ","I","D"," ","f","o","r","m","a","t">>))
       ELSE IF rejects(collection, db)
       THEN json(route, 500, id, failure(InternalServerError))
       ELSE IF ~db \/ post = NoDoc
       THEN json(route, 404, id, failure(postNotFound(id)))
       ELSE json(route, 200, id, success(<<>>, post))
    /\ postsOnly
    /\ UNCHANGED <<posts, inFlight>>

\* the validation of POST /api/posts
postError(body) ==
    IF body.title = <<>> \/ body.content = <<>> \/ body.author = <<>>
    THEN <<"M","i","s","s","i","n","g"," ","r","e","q","u","i","r","e","d"," ","f","i","e","l","d","s","."," ","T","i","t","l","e",","," ","c","o","n","t","e","n","t",","," ","a","n","d"," ","a","u","t","h","o","r"," ","a","r","e"," ","r","e","q","u","i","r","e","d",".">>
    ELSE IF Len(body.title) < 3 \/ Len(body.title) > 200
    THEN <<"T","i","t","l","e"," ","m","u","s","t"," ","b","e"," ","b","e","t","w","e","e","n"," ","3"," ","a","n","d"," ","2","0","0"," ","c","h","a","r","a","c","t","e","r","s">>
    ELSE IF Len(body.content) < 10
    THEN <<"C","o","n","t","e","n","t"," ","m","u","s","t"," ","b","e"," ","a","t"," ","l","e","a","s","t"," ","1","0"," ","c","h","a","r","a","c","t","e","r","s">>
    ELSE NoError

\* the largest postId of a non-empty collection: find().sort({postId: -1})
maxPostId(ps) ==
    CHOOSE n \in { ps[i].postId : i \in 1..Len(ps) } :
        \A i \in 1..Len(ps) : ps[i].postId <= n

\* find().sort({postId: -1}).limit(1).toArray(): the post with the largest
\* postId, of which the handler reads the postId
lastPostOf(ps) ==
    IF Len(ps) = 0 THEN <<>> ELSE <<[postId |-> maxPostId(ps)]>>

\* nextPostId of POST /api/posts: a last post whose postId is 0 counts as
\* none, and the number of posts is taken instead
nextPostId(lastPost, allPosts) ==
    IF Len(lastPost) > 0 /\ lastPost[1].postId # 0
    THEN lastPost[1].postId + 1
    ELSE IF allPosts > 0 THEN allPosts + 1
    ELSE 1

\* POST /api/posts up to the return of the find that looks for the last
\* post: the handler keeps what it read
postPosts(p, body) ==
    LET route == "POST /api/posts"
    IN
    /\ idle
    /\ p \notin waiting
    /\ IF reqSession.user = NoUser
       THEN /\ requireAuth(<<"/","a","p","i","/","p","o","s","t","s">>)
       ELSE /\ postsOnly
            /\ UNCHANGED posts
            /\ IF postError(body) # NoError
               THEN /\ json(route, 400, <<>>, failure(postError(body)))
                    /\ UNCHANGED inFlight
               ELSE IF rejects(collection, db)
               THEN \* find() of the guarded handle is a promise without sort
                    /\ json(route, 500, <<>>, failure(InternalServerError))
                    /\ UNCHANGED inFlight
               ELSE IF ~db
               THEN \* the substitute handle: nothing is read or stored
                    /\ json(route, 201, <<>>,
                            success(<<"P","o","s","t"," ","c","r","e","a","t","e","d"," ","s","u","c","c","e","s","s","f","u","l","l","y">>, NoDoc))
                    /\ UNCHANGED inFlight
               ELSE /\ inFlight' = [inFlight EXCEPT ![p] =
                           [op |-> "find", body |-> body,
                            lastPost |-> lastPostOf(posts),
                            postId |-> nextPostId(lastPostOf(posts),
                                                  Len(posts))]]
                    /\ UNCHANGED <<sessions, cookie, response>>

\* POST /api/posts from there: insertOne, findOne of the inserted post; with
\* the response is kept the last post as the handler had read it
postPostsInsert(p) ==
    LET newPost == [_id |-> Len(posts) + 1, postId |-> inFlight[p].postId,
                    title |-> inFlight[p].body.title, is_published |-> TRUE,
                    updated_at |-> now]
    IN
    /\ isDatabaseReady
    /\ ~response.pending
    /\ inFlight[p].op = "find"
    /\ Len(posts) < MaxPosts
    /\ posts' = Append(posts, newPost)
    /\ inFlight' = [inFlight EXCEPT ![p] = NoRequest]
    /\ end([Response("POST /api/posts", 201, <<>>, NewSession, reqSession)
               EXCEPT !.html = FALSE,
                      !.json = success(<<"P","o","s","t"," ","c","r","e","a","t","e","d"," ","s","u","c","c","e","s","s","f","u","l","l","y">>, newPost),
                      !.body = [lastPost |-> inFlight[p].lastPost]],
           reqSession)
    /\ postsOnly

\* the $set document of PUT /api/posts/:id
updateData(body) ==
    IF "title" \in DOMAIN body
    THEN [title |-> body.title, updated_at |-> now]
    ELSE [updated_at |-> now]

\* updateOne(query, {$set: set}): the first post with the postId is changed
updateOne(ps, postId, set) ==
    LET post == findOne(ps, postId, FALSE)
    IN  [ps EXCEPT ![post._id] =
            [f \in DOMAIN post |->
                IF f \in DOMAIN set THEN set[f] ELSE post[f]]]

\* PUT /api/posts/:id with a title or without any field
putPost(id, body) ==
    LET route == "PUT /api/posts/:id"
        postId == parseInt(id)
        changed == updateOne(posts, postId, updateData(body))
    IN
    /\ idle
    /\ IF reqSession.user = NoUser
       THEN /\ requireAuth(<<"/","a","p","i","/","p","o","s","t","s","/">> \o id)
       ELSE /\ postsOnly
            /\ UNCHANGED inFlight
            /\ IF postId = NaN
               THEN /\ json(route, 400, id, failure(<<"I","n","v","a","l","i","d"," ","p","o","s","t"," ","I","D"," ","f","o","r","m","a","t">>))
                    /\ UNCHANGED posts
               ELSE IF rejects(collection, db)
               THEN /\ json(route, 500, id, failure(InternalServerError))
                    /\ UNCHANGED posts
               ELSE IF ~db \/ findOne(posts, postId, FALSE) = NoDoc
               THEN /\ json(route, 404, id, failure(postNotFound(id)))
                    /\ UNCHANGED posts
               ELSE IF /\ "title" \in DOMAIN body
                       /\ Len(body.title) < 3 \/ Len(body.title) > 200
               THEN /\ json(route, 400, id,
                            failure(<<"T","i","t","l","e"," ","m","u","s","t"," ","b","e"," ","b","e","t","w","e","e","n"," ","3"," ","a","n","d"," ","2","0","0"," ","c","h","a","r","a","c","t","e","r","s">>))
                    /\ UNCHANGED posts
               ELSE IF DOMAIN updateData(body) = {"updated_at"}
               THEN /\ json(route, 400, id,
                            failure(<<"N","o"," ","f","i","e","l","d","s"," ","p","r","o","v","i","d","e","d"," ","f","o","r"," ","u","p","d","a","t","e">>))
                    /\ UNCHANGED posts
               ELSE /\ posts' = changed
                    /\ json(route, 200, id,
                            success(<<"P","o","s","t"," ","u","p","d","a","t","e","d"," ","s","u","c","c","e","s","s","f","u","l","l","y">>,
                                    findOne(changed, postId, FALSE)))

\* the $set document of DELETE /api/posts/:id
deleteSet == [is_published |-> FALSE, updated_at |-> now]

\* DELETE /api/posts/:id
deletePost(id) ==
    LET route == "DELETE /api/posts/:id"
        postId == parseInt(id)
    IN
    /\ idle
    /\ IF reqSession.user = NoUser
       THEN /\ requireAuth(<<"/","a","p","i","/","p","o","s","t","s","/">> \o id)
       ELSE /\ postsOnly
            /\ UNCHANGED inFlight
            /\ IF postId = NaN
               THEN /\ json(route, 400, id, failure(<<"I","n","v","a","l","i","d"," ","p","o","s","t"," ","I","D"," ","f","o","r","m","a","t">>))
                    /\ UNCHANGED posts
               ELSE IF rejects(collection, db)
               THEN /\ json(route, 500, id, failure(InternalServerError))
                    /\ UNCHANGED posts
               ELSE IF ~db \/ findOne(posts, postId, FALSE) = NoDoc
               THEN /\ json(route, 404, id, failure(postNotFound(id)))
                    /\ UNCHANGED posts
               ELSE /\ posts' = updateOne(posts, postId, deleteSet)
                    /\ json(route, 200, id,
                            success(<<"P","o","s","t"," ","w","i","t","h"," ","I","D"," ">> \o id
                                    \o <<" ","d","e","l","e","t","e","d"," ","s","u","c","c","e","s","s","f","u","l","l","y">>, NoDoc))

(***************************************************************************)
(* Requests that no route matches.  A path is the sequence of its          *)
(* segments: req.path begins with '/api/' when its first segment is api    *)
(* and another follows.                                                    *)
(***************************************************************************)
RECURSIVE pathString(_)
pathString(path) ==
    IF path = <<>> THEN <<>> ELSE <<"/">> \o Head(path) \o pathString(Tail(path))

startsWithApi(path) == Len(path) >= 2 /\ path[1] = <<"a","p","i">>

\* the routes of the server below /api
ApiRoutes ==
    { <<<<"G","E","T">>, <<<<"a","p","i">>, <<"h","e","a","l","t","h">>>>>>, <<<<"G","E","T">>, <<<<"a","p","i">>, <<"t","e","s","t">>>>>>,
      <<<<"G","E","T">>, <<<<"a","p","i">>, <<"i","n","f","o">>>>>>, <<<<"G","E","T">>, <<<<"a","p","i">>, <<"p","o","s","t","s">>>>>>,
      <<<<"P","O","S","T">>, <<<<"a","p","i">>, <<"p","o","s","t","s">>>>>>,
      <<<<"P","U","T">>, <<<<"a","p","i">>, <<"p","o","s","t","s">>, <<":","i","d">>>>>>,
      <<<<"D","E","L","E","T","E">>, <<<<"a","p","i">>, <<"p","o","s","t","s">>, <<":","i","d">>>>>>,
      <<<<"G","E","T">>, <<<<"a","p","i">>, <<"p","o","s","t","s">>, <<"c","a","t","e","g","o","r","i","e","s">>>>>>,
      <<<<"G","E","T">>, <<<<"a","p","i">>, <<"p","o","s","t","s">>, <<"s","t","a","t","s">>>>>>,
      <<<<"G","E","T">>, <<<<"a","p","i">>, <<"p","o","s","t","s">>, <<":","i","d">>>>>> }

routed(method, path) ==
    \E route \in ApiRoutes :
        /\ route[1] = method
        /\ Len(route[2]) = Len(path)
        /\ \A i \in 1..Len(path) :
              route[2][i] = <<":","i","d">> \/ route[2][i] = path[i]

\* the handlers after the routes, in the order of their registration: the
\* server registers the 404 page before the API 404 handler, the earlier
\* server registers the API 404 handler alone
NotFoundHandlers == { <<"page", "api">>, <<"api">> }

\* the first of the handlers that answers; a request that all of them pass
\* on gets the 404 page of express
notFoundResponse(handlers, method, path) ==
    LET page == Response("404", 404, <<>>, NewSession, reqSession)
    IN  IF handlers[1] = "api" /\ startsWithApi(path)
        THEN [page EXCEPT
                 !.html = FALSE,
                 !.json = failure(<<"R","o","u","t","e"," ">> \o method \o <<" ">>
                                  \o pathString(path) \o <<" ","n","o","t"," ","f","o","u","n","d">>)]
        ELSE page

notFound(method, path) ==
    /\ idle
    /\ ~routed(method, path)
    /\ \E handlers \in NotFoundHandlers :
          end([notFoundResponse(handlers, method, path)
                  EXCEPT !.body = [method |-> method, path |-> path]],
              reqSession)
    /\ postsOnly
    /\ UNCHANGED <<posts, inFlight>>

(***************************************************************************)
(* Start-up of the server: the routes are mounted and app.listen is called *)
(* in the then-callback of initializeDatabase(); every request passes the  *)
(* database-ready middleware first.                                        *)
(***************************************************************************)
\* a server that listens without waiting for initializeDatabase
resolvedAtOnce == TRUE

\* the promise of initializeDatabase() is resolved: the function has set
\* isDatabaseReady on its way out, after the try block or in the catch block
resolved == isDatabaseReady

listen ==
    /\ resolved
    /\ ~listening
    /\ listening' = TRUE
    /\ UNCHANGED <<users, indexes, collection, now, last, db, isDatabaseReady,
                   sessions, cookie, response, posts, inFlight>>

startsWith(s, prefix) ==
    /\ Len(prefix) <= Len(s)
    /\ \A j \in 1..Len(prefix) : s[j] = prefix[j]

\* the paths the middleware lets through before it looks at isDatabaseReady
ungated(path) ==
    \/ startsWith(path, <<"/","s","t","y","l","e","s","h","e","e","t","s">>)
    \/ path \in { <<"/","h","e","a","l","t","h">>, <<"/">>, <<"/","f","a","v","i","c","o","n",".","i","c","o">> }

\* a request for a path, handled once the server listens: the middleware
\* answers 503 for an /auth path while isDatabaseReady is false and calls
\* next() otherwise
gate(path, handler) ==
    /\ listening
    /\ IF ~ungated(path) /\ startsWith(path, <<"/","a","u","t","h">>) /\ ~isDatabaseReady
       THEN /\ ~response.pending
            /\ end(Response("Initializing", 503, <<>>, NewSession, reqSession),
                   reqSession)
            /\ UNCHANGED <<users, indexes, collection, now, last, db,
                           isDatabaseReady, api>>
       ELSE handler

(***************************************************************************)
(* Time passes between two calls.                                          *)
(***************************************************************************)
Tick(steps) ==
    /\ \E d \in steps : now + d <= MaxClock /\ now' = now + d
    /\ UNCHANGED <<users, indexes, collection, last>>
    /\ UNCHANGED server

(***************************************************************************)
(* Specification.                                                          *)
(***************************************************************************)
\* both letter cases of a set of identifiers
bothCases(ids) == ids \cup { toUpperCase(s) : s \in ids }

\* the e-mails and usernames the registered (student) accounts hold now
heldIdentifiers ==
    LET students == { u \in Docs(users) : u.role = "student" }
    IN  { u.email : u \in students } \cup { u.username : u \in students }

Register(forms) ==
    /\ \E userData \in forms : createUser(userData)
    /\ UNCHANGED server

Login(identifiers, passwords) ==
    /\ \E emailOrUsername \in identifiers, password \in passwords :
          authenticate(emailOrUsername, password)
    /\ UNCHANGED server

\* updateUser sets the fields it is given: here lockUntil, fifteen minutes
\* after the start.  It is the one operation through which a lock enters the
\* store, the lock update of authenticate being rejected by the store.
Lock ==
    /\ \E userId \in 1..Len(users) :
          updateUser(userId, [lockUntil |-> Epoch + LockMs])
    /\ UNCHANGED server

Delete ==
    /\ \E userId \in 1..(Len(users) + 1) : deleteUser(userId)
    /\ UNCHANGED server

Initialize == initialize /\ UNCHANGED server

SeedAdminUser == seedAdminUser /\ UNCHANGED server

\* logins: registration of the two accounts, logins, locks and time
LoginForms == { FormA, FormB }
LoginIdentifiers == { FormA.email, toUpperCase(FormA.username), FormB.email }

NextLogin ==
    \/ Initialize
    \/ Register(LoginForms)
    \/ Login(LoginIdentifiers, {ValidPassword, WrongPassword})
    \/ Lock
    \/ Tick({LockMs, LockMs + 1})

SpecLogin == Init /\ [][NextLogin]_vars

\* accounts: registration with every form, deletion, the seeded administrator
AccountForms ==
    { FormA, FormB, FormSameEmail, FormSameUsername, FormSameUsernameB,
      FormNoName, FormBadEmail, FormShortPassword }

NextAccounts ==
    \/ Initialize
    \/ Register(AccountForms)
    \/ Delete
    \/ SeedAdminUser
    \/ Tick({LockMs})

SpecAccounts == Init /\ [][NextAccounts]_vars

\* deleted accounts: an account is registered, deleted and registered again,
\* and callers present what the store holds with the account's password
NextDeleted ==
    \/ Initialize
    \/ Register({FormA})
    \/ Delete
    \/ Login(bothCases(heldIdentifiers), {ValidPassword})
    \/ Tick({LockMs})

SpecDeleted == Init /\ [][NextDeleted]_vars

\* the store is not reached at the start: handles are obtained without a
\* connection, are called, and the store connects and disconnects
InitDisconnected == Constructed(FALSE)

Connect == \E reached \in BOOLEAN : connect(reached)

HandleCall(forms) ==
    /\ \E op \in HandleOps, userData \in forms : handleCall(op, userData)
    /\ UNCHANGED server

NextDegraded ==
    \/ Connect
    \/ Initialize
    \/ HandleCall({FormA})
    \/ Register({FormA})
    \/ Login({FormA.email}, {ValidPassword})

\* posts: the server starts, an account registers and logs in, and requests
\* for the posts API overlap
PostIdsAsked == { <<"5">>, <<"x">> }

PostBodies ==
    { [title |-> <<"N","e","w"," ","p","o","s","t">>, content |-> <<"S","o","m","e"," ","c","o","n","t","e","n","t">>, author |-> <<"A">>],
      [title |-> <<"a","b">>, content |-> <<"S","o","m","e"," ","c","o","n","t","e","n","t">>, author |-> <<"A">>] }

PutBodies == { [title |-> <<"E","d","i","t","e","d">>], [note |-> <<"x">>] }

NextPosts ==
    \/ initializeDatabase
    \/ postRegister(BodyA)
    \/ postRegisterLogin
    \/ getPosts
    \/ \E id \in PostIdsAsked : getPost(id)
    \/ \E p \in 1..MaxInFlight, body \in PostBodies : postPosts(p, body)
    \/ \E p \in 1..MaxInFlight : postPostsInsert(p)
    \/ \E id \in PostIdsAsked, body \in PutBodies : putPost(id, body)
    \/ \E id \in PostIdsAsked : deletePost(id)

SpecPosts == InitDisconnected /\ [][NextPosts]_vars

\* new posts: the same over a store that an earlier run left empty or with
\* the first sample post alone (its insertMany was cut short)
StoredAtStart == { <<>>, SubSeq(samplePosts(Epoch), 1, 1) }

InitStored == \E stored \in StoredAtStart : Started(FALSE, stored)

NextNewPosts ==
    \/ initializeDatabase
    \/ postRegister(BodyA)
    \/ postRegisterLogin
    \/ getPosts
    \/ \E p \in 1..MaxInFlight, body \in PostBodies : postPosts(p, body)
    \/ \E p \in 1..MaxInFlight : postPostsInsert(p)

SpecNewPosts == InitStored /\ [][NextNewPosts]_vars

\* requests without a route: the server starts and one browser asks
UnroutedMethods == { <<"G","E","T">>, <<"P","O","S","T">>, <<"P","U","T">>, <<"D","E","L","E","T","E">>, <<"P","A","T","C","H">> }

UnroutedPaths ==
    { <<<<"a","p","i">>, <<"u","n","k","n","o","w","n">>>>, <<<<"a","p","i">>, <<"p","o","s","t","s">>>>, <<<<"a","p","i">>, <<"p","o","s","t","s">>, <<"5">>>>,
      <<<<"a","p","i">>, <<"p","o","s","t","s">>, <<"5">>, <<"l","i","k","e","s">>>>, <<<<"u","n","k","n","o","w","n">>>> }

NextUnrouted ==
    \/ initializeDatabase
    \/ postRegister(BodyA)
    \/ postRegisterLogin
    \/ getLogout
    \/ getPosts
    \/ \E method \in UnroutedMethods, path \in UnroutedPaths :
          notFound(method, path)

SpecUnrouted == InitDisconnected /\ [][NextUnrouted]_vars

\* start-up: the server initializes, listens, and one browser asks for the
\* login page, logs in as the administrator or not, and reads the posts
StartupLogins ==
    { LoginBody(AdminEmail, AdminPassword),
      LoginBody(AdminEmail, WrongPassword),
      LoginBody(<<>>, AdminPassword) }

NextStartup ==
    \/ initializeDatabase
    \/ listen
    \/ gate(LoginPath, getLogin)
    \/ \E body \in StartupLogins : gate(LoginPath, postLogin(body))
    \/ gate(<<"/","a","u","t","h","/","l","o","g","o","u","t">>, getLogout)
    \/ gate(<<"/","a","p","i","/","p","o","s","t","s">>, getPosts)

\* what changes at every step of the start-up
progress == <<last.op, isDatabaseReady, listening>>

\* initializeDatabase() is called when the module is loaded and each of its
\* awaits is resumed by the event loop, as is the then-callback that listens
SpecStartup ==
    /\ InitDisconnected
    /\ [][NextStartup]_vars
    /\ WF_progress(initializeDatabase)
    /\ WF_progress(listen)

\* concurrent logins: one account registers, and authenticate calls for it
\* overlap
FindOne ==
    /\ \E p \in 1..MaxInFlight, password \in {ValidPassword, WrongPassword} :
          authenticateFindOne(p, FormA.email, password)
    /\ UNCHANGED <<db, isDatabaseReady, sessions, cookie, response,
                   posts, listening>>

UpdateOne ==
    /\ \E p \in 1..MaxInFlight : authenticateUpdateOne(p)
    /\ UNCHANGED <<db, isDatabaseReady, sessions, cookie, response,
                   posts, listening>>

NextConcurrent ==
    \/ Initialize
    \/ Register({FormA})
    \/ FindOne
    \/ UpdateOne

SpecConcurrent == Init /\ [][NextConcurrent]_vars

SpecDegraded == InitDisconnected /\ [][NextDegraded]_vars

\* sessions: the server starts, an account registers, and one browser logs
\* in and out, asks for protected pages and views the pages of the flash
SessionLogins ==
    { LoginBody(FormA.email, ValidPassword),
      LoginBody(FormA.email, WrongPassword),
      LoginBody(<<>>, ValidPassword) }

NextSessions ==
    \/ initializeDatabase
    \/ postRegister(BodyA)
    \/ postRegisterLogin
    \/ \E body \in SessionLogins : postLogin(body)
    \/ getLogin
    \/ getProfile
    \/ getLogout
    \/ requireAuth(CrudPath)
    \/ postProfileUpdate(<<"B">>)

SpecSessions == InitDisconnected /\ [][NextSessions]_vars

\* registrations: the server starts and one browser posts registration forms
RegisterBodies ==
    { BodyA, BodyB, BodyEmailAsUsername, BodyNoName, BodyBadEmail,
      BodyShortPassword, BodyMismatch }

NextRegistrations ==
    \/ initializeDatabase
    \/ \E body \in RegisterBodies : postRegister(body)
    \/ postRegisterLogin
    \/ getRegister
    \/ getLogout

SpecRegistrations == InitDisconnected /\ [][NextRegistrations]_vars

(***************************************************************************)
(* Properties.                                                             *)
(***************************************************************************)
\* the last call was an authenticate that found an account
foundAccount == last.op = "authenticate" /\ last.id # 0

\* the account it found was locked when the call was made
wasLocked == last.pre.lockUntil # null /\ last.pre.lockUntil > last.at

\* the password it was given is the account's
rightPassword == comparePassword(last.arg.password, last.pre.password)

\* C1: the fifth consecutive authenticate call with a wrong password locks the
\* account for 15 minutes (lockUntil = now + 15 minutes), so that a sixth call
\* made before lockUntil meets a locked account whatever its password.
C1_FifthFailureLocks ==
    (/\ foundAccount
     /\ ~wasLocked
     /\ ~rightPassword
     /\ last.pre.loginAttempts + 1 >= MaxLoginAttempts)
    => /\ users[last.id].lockUntil = last.at + LockMs
       /\ users[last.id].loginAttempts = 0

\* C2: after every successful authenticate the stored account has
\* loginAttempts = 0, lockUntil = null and lastLogin = the time of the call,
\* whatever loginAttempts and lockUntil were before.
C2_SuccessResets ==
    (foundAccount /\ last.ok)
    => /\ users[last.id].loginAttempts = 0
       /\ users[last.id].lockUntil = null
       /\ users[last.id].lastLogin = last.at

\* a login succeeded on an account with failed attempts and an expired lock
C2_Witness ==
    /\ foundAccount
    /\ last.ok
    /\ last.pre.loginAttempts > 0
    /\ last.pre.lockUntil # null
    /\ users[last.id].lastLogin = last.at

\* C3: an authenticate call on an account whose lockUntil is later than the
\* current time fails with the account-locked error whatever the password,
\* without comparing the password and without writing to the account.
C3_LockedAccountRejects ==
    (foundAccount /\ wasLocked)
    => /\ ~last.ok
       /\ last.error =
            AccountLocked(ceilDiv(last.pre.lockUntil - last.at, MinuteMs))
       /\ ~last.compared
       /\ users[last.id] = last.pre

\* a locked account was given its own password and the call failed
C3_Witness ==
    /\ foundAccount
    /\ wasLocked
    /\ rightPassword
    /\ ~last.ok
    /\ last.pre.loginAttempts > 0

\* C4: once the current time is past an account's lockUntil, authenticate
\* with the right password succeeds and leaves loginAttempts = 0.
C4_LockExpires ==
    (/\ foundAccount
     /\ last.pre.lockUntil # null
     /\ last.pre.lockUntil < last.at
     /\ rightPassword)
    => /\ last.ok
       /\ users[last.id].loginAttempts = 0

\* a login succeeded after the lock of an account with failed attempts ran out
C4_Witness ==
    /\ foundAccount
    /\ last.pre.lockUntil # null
    /\ last.pre.lockUntil < last.at
    /\ last.pre.loginAttempts > 0
    /\ rightPassword
    /\ last.ok
    /\ users[last.id].loginAttempts = 0

\* C5: every authenticate call that fails on an initialized model, other than
\* on a locked account, fails with 'Invalid credentials', whether no active
\* account matched or the password was wrong, the attempt that reaches the
\* lock threshold included.
C5_SameMessage ==
    (/\ last.op = "authenticate"
     /\ ~last.ok
     /\ collection = "real"
     /\ ~(last.id # 0 /\ wasLocked))
    => last.error = InvalidCredentials

\* C6: authenticate never succeeds for an account whose isActive is false,
\* whichever identifier and letter case are presented with its password.
C6_InactiveNeverAuthenticates ==
    (last.op = "authenticate" /\ last.ok) => last.pre.isActive = TRUE

\* a deleted account's e-mail or username, as upper case, and its password
\* were presented, and the call failed with 'Invalid credentials'
C6_Witness ==
    /\ last.op = "authenticate"
    /\ ~last.ok
    /\ last.error = InvalidCredentials
    /\ last.arg.emailOrUsername # toLowerCase(last.arg.emailOrUsername)
    /\ \E u \in Docs(users) :
          /\ u.isActive = FALSE
          /\ toLowerCase(last.arg.emailOrUsername) \in {u.email, u.username}
          /\ comparePassword(last.arg.password, u.password)

\* the form passes the validation of createUser
wellFormed(userData) ==
    /\ userData.name # <<>>
    /\ userData.username # <<>>
    /\ emailRegexTest(userData.email)
    /\ Len(userData.password) >= MinPasswordLength

\* an account other than the one the last call inserted holds this value
heldByOther(field, value) ==
    \E u \in Docs(users) : u._id # last.id /\ u[field] = value

\* C7: a createUser (with otherwise valid fields) whose e-mail equals, up to
\* letter case, the e-mail an account holds fails with 'Email already exists'
\* and inserts nothing.
C7_DuplicateEmail ==
    (/\ last.op = "createUser"
     /\ wellFormed(last.arg)
     /\ heldByOther("email", toLowerCase(last.arg.email)))
    => /\ ~last.ok
       /\ last.error = EmailExists
       /\ last.id = 0
       /\ Len(users) = last.count

\* a form whose e-mail differs from an account's only by letter case was
\* rejected
C7_Witness ==
    /\ last.op = "createUser"
    /\ wellFormed(last.arg)
    /\ last.arg.email # toLowerCase(last.arg.email)
    /\ heldByOther("email", toLowerCase(last.arg.email))
    /\ ~heldByOther("username", toLowerCase(last.arg.username))
    /\ last.error = EmailExists

\* C8: when the store rejects a createUser for a unique-index violation, the
\* error names the field that collided: 'Username already exists' when only
\* the username collides, 'Email already exists' when only the e-mail does.
C8_ErrorNamesField ==
    (/\ last.op = "createUser"
     /\ wellFormed(last.arg)
     /\ ~last.ok)
    => /\ (/\ heldByOther("username", toLowerCase(last.arg.username))
           /\ ~heldByOther("email", toLowerCase(last.arg.email)))
          => last.error = UsernameExists
       /\ (/\ heldByOther("email", toLowerCase(last.arg.email))
           /\ ~heldByOther("username", toLowerCase(last.arg.username)))
          => last.error = EmailExists

endsWith(s, suffix) ==
    /\ Len(suffix) <= Len(s)
    /\ \A j \in 1..Len(suffix) : s[Len(s) - Len(suffix) + j] = suffix[j]

C10_UniqueIdentities ==
    \A u, w \in Docs(users) :
        u._id # w._id => (u.email # w.email /\ u.username # w.username)

\* the store holds a deleted account and an active one registered with the
\* deleted account's former e-mail
C10_Witness ==
    \E u, w \in Docs(users) :
        /\ u.isActive = FALSE
        /\ w.isActive = TRUE
        /\ endsWith(u.email, <<"_">> \o w.email)

\* the last call was an operation of a substitute handle
handleCalled == last.op \in HandleOps

\* C11: on a handle obtained while the store is disconnected, insertOne
\* returns an acknowledged result with a placeholder insertedId and findOne
\* returns no document, and the write changes no stored document.
C11_DegradedWriteIsNotRead ==
    (handleCalled /\ ~last.connected /\ last.op \in {"insertOne", "findOne"})
    => /\ last.ok
       /\ last.value = mockResult(last.op, last.at)
       /\ Len(users) = last.count

\* C12: while the store is disconnected, every operation of a handle that
\* getCollection returned completes without throwing or rejecting.
C12_DegradedNeverThrows ==
    (handleCalled /\ ~last.connected) => last.ok

\* C13: a handle obtained while the store was disconnected does not
\* self-heal: after the store has connected, every operation on it still
\* gives the degraded result, finding and writing no stored document.
C13_NoSelfHeal ==
    (handleCalled /\ last.connected)
    => /\ last.ok
       /\ last.id = 0
       /\ Len(users) = last.count
       /\ last.op = "find" => last.value = <<>>

\* the last response is that of the auto-login of POST /auth/register
autoLoginAnswered ==
    /\ response.route = "POST /auth/register"
    /\ response.called
    /\ last.op = "authenticate"

\* C14: in POST /auth/register, when createUser has succeeded and the
\* auto-login authenticate fails, the registration is still reported as
\* successful: the response redirects to /auth/login with the success flash
\* 'Account created! Please log in.', and sets no error flash.
C14_FailedAutoLoginIsSuccess ==
    (autoLoginAnswered /\ ~last.ok)
    => /\ response.location = LoginPath
       /\ response.session.success = AccountCreatedPleaseLogIn
       /\ response.session.error = response.before.error

\* C15: in every state the user payload of every session (set by login, by
\* the auto-login of a registration or by a profile update) and the results
\* that createUser and authenticate returned have no password field.
C15_NoPasswordInPayloads ==
    /\ \A sid \in 1..MaxSessions :
          sessions[sid] # NoSession
          => "password" \notin DOMAIN sessions[sid].user
    /\ "password" \notin DOMAIN response.session.user
    /\ (last.op \in {"createUser", "authenticate"} /\ last.ok)
       => "password" \notin DOMAIN last.value

\* the session of a logged-in account after its profile update
C15_Witness ==
    /\ response.route = "POST /auth/profile/update"
    /\ response.status = 200
    /\ live
    /\ reqSession.user # NoUser
    /\ reqSession.user.name = <<"B">>
    /\ reqSession.user.email = FormA.email

FlashPages == {"GET /auth/login", "GET /auth/register", "GET /auth/profile"}

\* C16: a flash message (session.error, session.success, session.formData)
\* is rendered by at most one page view: once GET /auth/login,
\* GET /auth/register or GET /auth/profile has rendered it, the session as
\* stored for the next request no longer holds it.
C16_FlashShownOnce ==
    (/\ response.route \in FlashPages
     /\ response.status = 200
     /\ sessions[response.sid] # NoSession)
    => /\ response.rendered.error # <<>>
          => sessions[response.sid].error = <<>>
       /\ response.rendered.success # <<>>
          => sessions[response.sid].success = <<>>
       /\ response.rendered.formData # NoFormData
          => sessions[response.sid].formData = NoFormData

\* the last response is that of POST /auth/login
loginAnswered == response.route = "POST /auth/login"

\* and its authenticate succeeded
loginSucceeded == loginAnswered /\ response.called /\ last.ok

\* C17: an unauthenticated request for a protected URL is redirected to
\* /auth/login and the URL is kept in returnTo; a successful login of that
\* session redirects to the URL (to / when there is none) and removes
\* returnTo; a failed login leaves returnTo as it is; and no request puts a
\* returnTo into a session that has a user, so that a later successful
\* login redirects to /.
C17_ReturnTo ==
    /\ (response.route = "requireAuth" /\ response.before.user = NoUser)
       => /\ response.location = LoginPath
          /\ sessions[response.sid].returnTo = CrudPath
    /\ (response.route = "GET /auth/profile" /\ response.before.user = NoUser)
       => /\ response.location = LoginPath
          /\ sessions[response.sid].returnTo = ProfilePath
    /\ loginSucceeded
       => /\ response.location = IF response.before.returnTo = <<>>
                                 THEN HomePath ELSE response.before.returnTo
          /\ sessions[response.sid].returnTo = <<>>
    /\ (loginAnswered /\ ~loginSucceeded)
       => /\ response.location = LoginPath
          /\ sessions[response.sid].returnTo = response.before.returnTo
    /\ (/\ response.before.user # NoUser
        /\ response.before.returnTo = <<>>
        /\ sessions[response.sid] # NoSession)
       => sessions[response.sid].returnTo = <<>>

\* a login was redirected to the protected URL and returnTo is gone
C17_Witness ==
    /\ loginSucceeded
    /\ response.location = CrudPath
    /\ sessions[response.sid].returnTo = <<>>
    /\ sessions[response.sid].user # NoUser

\* C18: after GET /auth/logout the session is invalidated in the store and
\* its cookie is cleared, so that a later request with the old session id
\* is unauthenticated.
C18_LogoutInvalidates ==
    response.route = "GET /auth/logout"
    => /\ sessions[response.sid] = NoSession
       /\ reqSession.user = NoUser
       /\ cookie = 0

\* the body fails one of the validations of a registration
failsValidation(body) ==
    \/ body.name = <<>> \/ body.email = <<>> \/ body.username = <<>>
    \/ body.password = <<>>
    \/ ~emailRegexTest(body.email)
    \/ Len(body.password) < MinPasswordLength
    \/ body.password # body.confirmPassword

\* C19: a registration that fails validation (a name, e-mail, username or
\* password that is empty, a malformed e-mail, a password shorter than 6,
\* a password that differs from confirmPassword) has no effect on the
\* accounts: none is inserted or changed, and the session gets no user.
C19_InvalidRegistrationHasNoEffect ==
    (response.route = "POST /auth/register" /\ failsValidation(response.body))
    => /\ users = response.accounts
       /\ ~response.pending
       /\ response.session.user = response.before.user
       /\ sessions[response.sid].user = response.before.user

\* a registration with a malformed e-mail was refused by a connected store
C19_Witness ==
    /\ response.route = "POST /auth/register"
    /\ response.body = BodyBadEmail
    /\ response.session.error = InvalidEmailFormat
    /\ last.handle = "real"
    /\ users = response.accounts

\* the account POST /auth/register has just inserted has the role student
storedAsStudent ==
    (response.route = "POST /auth/register" /\ response.pending /\ last.id # 0)
    => /\ Len(users) = Len(response.accounts) + 1
       /\ users[last.id].email = toLowerCase(response.body.email)
       /\ users[last.id].role = "student"

\* the session of the response holds a user with the role student
sessionHoldsStudent ==
    /\ sessions[response.sid] # NoSession
    /\ sessions[response.sid].user # NoUser
    /\ sessions[response.sid].user.role = "student"

InternalErrors ==
    { NotConnected, NullFindOne, NullUpdateOne,
      conflictMessage(LoginAttemptsField) }

\* C21: when an internal error occurs while POST /auth/login or
\* POST /auth/register is handled, the message shown to the caller is
\* generic: the session's error, which the next page renders, is never the
\* message of the internal error.
C21_InternalErrorIsGeneric ==
    (/\ response.route \in {"POST /auth/login", "POST /auth/register"}
     /\ response.called
     /\ ~response.pending
     /\ ~last.ok
     /\ last.error \in InternalErrors)
    => response.session.error # last.error

\* two authenticate calls p and q for one account overlapped: q read the
\* account while p waited for the store, both read n failed attempts, both
\* were given a wrong password and both have written
bothRead(p, q, n) ==
    /\ p # q
    /\ inFlight[p].op = "updateOne" /\ inFlight[q].op = "updateOne"
    /\ p \in inFlight[q].during
    /\ inFlight[p].user._id = inFlight[q].user._id
    /\ inFlight[p].user.loginAttempts = n
    /\ inFlight[q].user.loginAttempts = n
    /\ ~comparePassword(inFlight[p].arg.password, inFlight[p].user.password)
    /\ ~comparePassword(inFlight[q].arg.password, inFlight[q].user.password)

\* C22: the counting of failed attempts is not atomic: when two concurrent
\* failed authenticate calls on one account have both read loginAttempts = 4,
\* the stored loginAttempts is 5 afterwards and not 6: one of the two
\* failures is not counted.
C22_ConcurrentFailuresCountOnce ==
    \A p, q \in 1..MaxInFlight :
        bothRead(p, q, MaxLoginAttempts - 1)
        => users[inFlight[p].user._id].loginAttempts = MaxLoginAttempts

\* C27: in every reachable state of a connected store, under any sequence
\* or interleaving of authenticate calls, the stored loginAttempts of each
\* account is between 0 and 4.
C27_LoginAttemptsInRange ==
    \A u \in Docs(users) : u.loginAttempts \in 0..(MaxLoginAttempts - 1)

\* the retry-after value of a lock at a time
retryAfter(lockUntil, t) == ceilDiv(lockUntil - t, MinuteMs)

\* C26: the retry-after value N of the account-locked error is
\* ceil((lockUntil - now) / 60000), and the lock that authenticate sets at
\* the fifth consecutive failure gives 1 <= N <= 15 to every attempt made
\* while it is in force: the attempt that reaches the threshold leaves the
\* account locked with N in that range, and an attempt on a locked account
\* is answered with such an N.
C26_RetryAfterInRange ==
    /\ (foundAccount /\ wasLocked)
       => /\ last.error =
                AccountLocked(retryAfter(last.pre.lockUntil, last.at))
          /\ retryAfter(last.pre.lockUntil, last.at) \in 1..(LockMs \div MinuteMs)
    /\ (/\ foundAccount
        /\ ~wasLocked
        /\ ~rightPassword
        /\ last.pre.loginAttempts + 1 >= MaxLoginAttempts
        /\ now = last.at)
       => /\ isLocked(users[last.id])
          /\ retryAfter(users[last.id].lockUntil, now) \in 1..(LockMs \div MinuteMs)

\* C23: a request whose path begins with /api/ and that no route matches is
\* answered 404 with a JSON body holding success = false and an error
\* message, not with the HTML 404 page, whatever its method.
C23_ApiNotFoundIsJson ==
    (response.route = "404" /\ startsWithApi(response.body.path))
    => /\ response.status = 404
       /\ ~response.html
       /\ response.json.success = FALSE
       /\ response.json.error # <<>>

\* the last response is that of a POST /api/posts that stored a post
postCreated ==
    /\ response.route = "POST /api/posts"
    /\ response.status = 201
    /\ response.json.data # NoDoc

\* C24: POST /api/posts on a connected store gives the new post the largest
\* postId among the stored posts plus 1 when there are posts, a largest
\* postId of 0 included, and 1 when there are none.
C24_NextPostIdIsLargestPlusOne ==
    postCreated
    => response.json.data.postId =
          IF response.body.lastPost # <<>>
          THEN response.body.lastPost[1].postId + 1
          ELSE 1

\* the posts with a postId
withPostId(postId) ==
    { i \in 1..Len(posts) : posts[i].postId = postId }

\* what the reading routes answer while a post is deleted
deletedIsHidden ==
    /\ (response.route = "DELETE /api/posts/:id" /\ response.status = 200)
       => \E i \in withPostId(parseInt(response.body.id)) :
             ~posts[i].is_published
    /\ (response.route = "GET /api/posts/:id" /\ response.status = 200)
       => response.json.data.is_published
    /\ (/\ response.route = "GET /api/posts/:id"
        /\ parseInt(response.body.id) # NaN
        /\ \A i \in withPostId(parseInt(response.body.id)) :
              ~posts[i].is_published)
       => response.status \in {404, 500}
    /\ (response.route = "GET /api/posts" /\ response.status = 200)
       => \A k \in 1..Len(response.json.data) :
             response.json.data[k].is_published

\* a deleted post stays stored and deleted
staysDeleted ==
    \A i \in 1..Len(posts) :
        ~posts[i].is_published
        => /\ i <= Len(posts')
           /\ posts'[i].postId = posts[i].postId
           /\ ~posts'[i].is_published

C30_UniquePostIds ==
    \A i, j \in 1..Len(posts) :
        i # j => posts[i].postId # posts[j].postId

\* what holds of the server while it listens
listensWhenReady ==
    /\ listening => isDatabaseReady
    /\ response.route # "none" => listening /\ isDatabaseReady
    /\ response.status # 503 \/ response.route = "GET /api/posts"

C28_DegradedNeverLogsIn ==
    collection \in {"mock", "guarded"}
    => /\ last.op = "authenticate" => ~last.ok
       /\ \A sid \in 1..MaxSessions :
             sessions[sid] # NoSession => sessions[sid].user = NoUser
       /\ response.session.user = NoUser
       /\ autoLoginAnswered => response.location # HomePath

\* a registration with valid input went through createUser on the mock
\* handle and its auto-login failed
C28_Witness ==
    /\ collection = "mock"
    /\ autoLoginAnswered
    /\ response.body = BodyA
    /\ ~last.ok
    /\ users = <<>>
    /\ response.session.user = NoUser

====
